---- MODULE Spec2Model ----
(***************************************************************************)
(* Protocol monitor of the Claude_Protocol repository:                     *)
(*   src/monitor/monitor-agent.py          ProtocolEnforcer, MonitorAgent  *)
(*   src/monitor/hooks/hook_status_emitter.py   the emit_* functions       *)
(*                                                                         *)
(* Text is a sequence of one-character strings, so that substring search,  *)
(* word boundaries and lower-casing are computed on characters.  Python    *)
(* values that may be None, a string or something else are tagged records. *)
(***************************************************************************)
EXTENDS Integers, Sequences, FiniteSets, TLC

VARIABLES
  context,            \* ProtocolEnforcer.context : ExecutionContext
  violation_history,  \* ProtocolEnforcer.violation_history : deque(maxlen=1000)
  turn_analysis,      \* local `analysis` of the last prompt event (line 267)
  last,               \* the last MonitorAgent.process_event call: event, outcome
  seen,               \* history: what the events processed so far amount to
  analyze_in,         \* argument of a stand-alone analyze_prompt call (--analyze)
  analyze_out,        \* its return value
  emit,               \* the last call of an emit_* function of a hook: its outcome
  fs,                 \* the file at MONITOR_LOG: whether it exists, its lines
  watch,              \* MonitorAgent.watch_logs: running, _last_position, the open file
  wseen               \* history of the watch: lines written, lines passed, rotations

vars ==
  <<context, violation_history, turn_analysis, last, seen, analyze_in, analyze_out,
    emit, fs, watch, wseen>>

-----------------------------------------------------------------------------
\* Python values.  (Every record of the module lists its fields in one fixed
\* order: that of the first mention of each name in the module.)

PyNone == [t |-> "None", v |-> <<>>]
PyStr(s) == [t |-> "str", v |-> s]
PyInt(digits) == [t |-> "int", v |-> digits]
\* the value of a key the dict does not hold
Absent == [t |-> "absent", v |-> <<>>]

\* a new ExecutionContext
ExecutionContext ==
  [prompt |-> PyNone, prompt_time |-> PyNone, complexity_score |-> 0,
   orchestrator_active |-> FALSE, active_agents |-> <<>>, hooks_executed |-> <<>>,
   tools_used |-> <<>>, subagents_spawned |-> <<>>, violations |-> <<>>]

\* ProtocolEnforcer.__init__
NewEnforcer == [context |-> ExecutionContext, violation_history |-> <<>>]

-----------------------------------------------------------------------------
\* Configuration (monitor-agent.py lines 42-47) and the regex alternations

COMPLEXITY_THRESHOLD == 3

MULTI_STEP_WORDS ==
  << <<"a", "n", "d", " ", "t", "h", "e", "n">>,
     <<"a", "f", "t", "e", "r", " ", "t", "h", "a", "t">>,
     <<"f", "i", "r", "s", "t">>,
     <<"t", "h", "e", "n">>,
     <<"n", "e", "x", "t">>,
     <<"f", "i", "n", "a", "l", "l", "y">>,
     <<"o", "n", "c", "e">> >>

COLLAB_PHRASES ==
  << <<"c", "a", "n", " ", "w", "e">>,
     <<"l", "e", "t", "'", "s">>,
     <<"h", "o", "w", " ", "d", "o", " ", "w", "e">>,
     <<"h", "e", "l", "p", " ", "m", "e">>,
     <<"f", "i", "g", "u", "r", "e", " ", "o", "u", "t">>,
     <<"w", "o", "r", "k", " ", "o", "n">>,
     <<"l", "e", "t", " ", "m", "e", " ", "k", "n", "o", "w">> >>

\* r'\b(entire|whole|all|every|across|complete)\b'
SCOPE_WORDS ==
  << <<"e", "n", "t", "i", "r", "e">>,
     <<"w", "h", "o", "l", "e">>,
     <<"a", "l", "l">>,
     <<"e", "v", "e", "r", "y">>,
     <<"a", "c", "r", "o", "s", "s">>,
     <<"c", "o", "m", "p", "l", "e", "t", "e">> >>

\* r'\b(security|auth|password|token|encrypt)\b'
SECURITY_WORDS ==
  << <<"s", "e", "c", "u", "r", "i", "t", "y">>,
     <<"a", "u", "t", "h">>,
     <<"p", "a", "s", "s", "w", "o", "r", "d">>,
     <<"t", "o", "k", "e", "n">>,
     <<"e", "n", "c", "r", "y", "p", "t">> >>

\* r'\b(architect|design|refactor|restructure)\b'
ARCHITECTURE_WORDS ==
  << <<"a", "r", "c", "h", "i", "t", "e", "c", "t">>,
     <<"d", "e", "s", "i", "g", "n">>,
     <<"r", "e", "f", "a", "c", "t", "o", "r">>,
     <<"r", "e", "s", "t", "r", "u", "c", "t", "u", "r", "e">> >>

\* r'\b(test|coverage|spec)\b'
TESTING_WORDS ==
  << <<"t", "e", "s", "t">>,
     <<"c", "o", "v", "e", "r", "a", "g", "e">>,
     <<"s", "p", "e", "c">> >>

\* r'\b(performance|optimize|slow|fast)\b'
PERFORMANCE_WORDS ==
  << <<"p", "e", "r", "f", "o", "r", "m", "a", "n", "c", "e">>,
     <<"o", "p", "t", "i", "m", "i", "z", "e">>,
     <<"s", "l", "o", "w">>,
     <<"f", "a", "s", "t">> >>

-----------------------------------------------------------------------------
\* Text primitives: str.lower, `x in s`, re.search(r'\b(a|b|..)\b', s), str/repr

UpperCase ==
  <<"A", "B", "C", "D", "E", "F", "G", "H", "I", "J", "K", "L", "M",
    "N", "O", "P", "Q", "R", "S", "T", "U", "V", "W", "X", "Y", "Z">>

LowerCase ==
  <<"a", "b", "c", "d", "e", "f", "g", "h", "i", "j", "k", "l", "m",
    "n", "o", "p", "q", "r", "s", "t", "u", "v", "w", "x", "y", "z">>

Digits == <<"0", "1", "2", "3", "4", "5", "6", "7", "8", "9">>

Range(s) == {s[i] : i \in 1..Len(s)}

\* \w of the regex module, on the ASCII characters the model uses
WordChars == Range(UpperCase) \cup Range(LowerCase) \cup Range(Digits) \cup {"_"}

UpperChars == Range(UpperCase)

LowerOf ==
  [c \in UpperChars |-> LowerCase[CHOOSE i \in 1..Len(UpperCase) : UpperCase[i] = c]]

lower_char(c) == IF c \in UpperChars THEN LowerOf[c] ELSE c

lower(s) == [i \in 1..Len(s) |-> lower_char(s[i])]

\* Python's `w in p` on strings: w occurs as a contiguous substring of p
\* w is read in p from position i on
OccursAt(p, w, i) == \A j \in 1..Len(w) : p[i + j - 1] = w[j]

Contains(p, w) == \E i \in 1..(Len(p) - Len(w) + 1) : OccursAt(p, w, i)

\* the occurrence of w at p[i..j] is delimited by \b on both sides
WordAt(p, w, i) ==
  LET j == i + Len(w) - 1 IN
  /\ OccursAt(p, w, i)
  /\ (i = 1 \/ p[i - 1] \notin WordChars)
  /\ (j = Len(p) \/ p[j + 1] \notin WordChars)

\* re.search(r'\b(w1|w2|...)\b', p) is not None
re_search(words, p) ==
  \E k \in 1..Len(words) :
    \E i \in 1..(Len(p) - Len(words[k]) + 1) : WordAt(p, words[k], i)

\* repr of a str: double quotes when it holds ' and no "
py_repr(s) ==
  IF "'" \in Range(s) /\ "\"" \notin Range(s)
  THEN <<"\"">> \o s \o <<"\"">>
  ELSE <<"'">> \o s \o <<"'">>

RECURSIVE py_join(_)
py_join(items) ==
  IF Len(items) = 0 THEN <<>>
  ELSE IF Len(items) = 1 THEN py_repr(items[1])
  ELSE py_repr(items[1]) \o <<",", " ">> \o py_join(Tail(items))

\* str(list of str)
py_str_list(items) == <<"[">> \o py_join(items) \o <<"]">>

-----------------------------------------------------------------------------
\* ProtocolEnforcer.analyze_prompt and _suggest_agents

domain_agents(domain) ==
  CASE domain = "security" -> "security-scanner"
    [] domain = "architecture" -> "architect"
    [] domain = "testing" -> "tester"
    [] domain = "performance" -> "performance-analyzer"

KnownDomains == {"security", "architecture", "testing", "performance"}

\* a variant that leaves out the agents already active
_suggest_agents_bug(self, domains, complexity) ==
  LET InMap(d) == d \in KnownDomains
      known == SelectSeq(domains, InMap)
      agents == [i \in 1..Len(known) |-> domain_agents(known[i])]
      Idle(a) == a \notin Range(self.context.active_agents)
  IN SelectSeq(IF complexity >= 4 /\ "architect" \notin Range(agents)
               THEN <<"architect">> \o agents ELSE agents, Idle)

_suggest_agents(self, domains, complexity) ==
  LET InMap(d) == d \in KnownDomains
      known == SelectSeq(domains, InMap)
      agents == [i \in 1..Len(known) |-> domain_agents(known[i])]
  IN IF complexity >= 4 /\ "architect" \notin Range(agents)
     THEN <<"architect">> \o agents
     ELSE agents

\* index of the first collaboration phrase found in p, 0 when none (the loop
\* of lines 147-151 stops at the first hit)
first_collab(p) ==
  LET hits == {k \in 1..Len(COLLAB_PHRASES) : Contains(p, COLLAB_PHRASES[k])}
  IN IF hits = {} THEN 0 ELSE CHOOSE k \in hits : \A h \in hits : k <= h

\* lines 155-160: what the multi-step words add to the complexity
multi_step_points_bug(multi_count) == multi_count

multi_step_points(multi_count) ==
  IF multi_count >= 2 THEN 2 ELSE IF multi_count = 1 THEN 1 ELSE 0

\* the return value of analyze_prompt
analysis_result(self, domains, complexity, signals) ==
  [domains |-> domains,
   complexity |-> complexity,
   signals |-> signals,
   requires_orchestrator |->
      \/ complexity >= COMPLEXITY_THRESHOLD
      \/ Contains(py_str_list(signals), <<"c", "o", "l", "l", "a", "b">>),
   suggested_agents |-> _suggest_agents(self, domains, complexity)]

\* min(a, b)
py_min(a, b) == IF a < b THEN a ELSE b

\* `complexity += n` and `list.append(x)` under a condition
points(cond, n) == IF cond THEN n ELSE 0
appended(cond, x) == IF cond THEN <<x>> ELSE <<>>

\* the signal 'multi-step:<multi_count>'
multi_step_signal(multi_count) ==
  <<"m", "u", "l", "t", "i", "-", "s", "t", "e", "p", ":">> \o <<Digits[multi_count + 1]>>

analyze_prompt(self, prompt) ==
  LET p == lower(prompt)
      \* collaboration signals
      ci == first_collab(p)
      c1 == 1 + points(ci > 0, 1)
      s1 == IF ci > 0
            THEN << <<"c", "o", "l", "l", "a", "b", ":">> \o COLLAB_PHRASES[ci] >>
            ELSE <<>>
      \* multi-step signals
      multi_count ==
        Cardinality({k \in 1..Len(MULTI_STEP_WORDS) : Contains(p, MULTI_STEP_WORDS[k])})
      c2 == c1 + multi_step_points(multi_count)
      s2 == s1 \o appended(multi_count >= 1, multi_step_signal(multi_count))
      \* scope signals
      scope == re_search(SCOPE_WORDS, p)
      c3 == c2 + points(scope, 2)
      s3 == s2 \o appended(scope, <<"b", "r", "o", "a", "d", "-", "s", "c", "o", "p", "e">>)
      \* domain signals
      sec == re_search(SECURITY_WORDS, p)
      arch == re_search(ARCHITECTURE_WORDS, p)
      perf == re_search(PERFORMANCE_WORDS, p)
      d3 == appended(sec, "security") \o appended(arch, "architecture")
              \o appended(re_search(TESTING_WORDS, p), "testing")
      c6 == c3 + points(sec, 1) + points(arch, 1) + points(perf, 1)
  IN analysis_result(self, d3 \o appended(perf, "performance"), py_min(c6, 5), s3)

-----------------------------------------------------------------------------
\* Violation, RULES

HISTORY_MAXLEN == 1000

RULES(rule) ==
  CASE rule = "ORCH_REQUIRED" -> [severity |-> "ERROR", action |-> "STOP"]
    [] rule = "AGENT_REQUIRED" -> [severity |-> "WARN", action |-> "ASK"]
    [] rule = "HOOK_MISSING" -> [severity |-> "WARN", action |-> "LOG"]
    [] rule = "HOOK_TIMEOUT" -> [severity |-> "WARN", action |-> "LOG"]
    [] rule = "SUBAGENT_EXPECTED" -> [severity |-> "INFO", action |-> "LOG"]
    [] rule = "QUALITY_GATE_SKIP" -> [severity |-> "ERROR", action |-> "STOP"]
    [] rule = "LAZY_PATTERN" -> [severity |-> "ERROR", action |-> "STOP"]
    [] rule = "NO_PLAN_MODE" -> [severity |-> "WARN", action |-> "ASK"]

\* a variant that takes the action from the severity
Violation_bug(severity, rule, text, args, action_taken) ==
  [rule |-> rule, severity |-> severity,
   action_taken |-> CASE severity = "ERROR" -> "STOP"
                      [] severity = "WARN" -> "ASK"
                      [] OTHER -> action_taken,
   message |-> [text |-> text, args |-> args]]

\* a Violation; its message is the f-string's fixed text and the values it
\* interpolates; the wall-clock timestamp and the context dict are left out
Violation(severity, rule, text, args, action_taken) ==
  [rule |-> rule, severity |-> severity, action_taken |-> action_taken,
   message |-> [text |-> text, args |-> args]]

-----------------------------------------------------------------------------
\* The three checks of ProtocolEnforcer; each returns a sequence of violations
\* (empty for None)

check_orchestration_requirement(self, analysis) ==
  IF analysis.requires_orchestrator /\ ~self.context.orchestrator_active
  THEN << Violation("ERROR", "ORCH_REQUIRED",
                    "Complex task requires orchestrator but none active",
                    <<Digits[analysis.complexity + 1]>>,
                    RULES("ORCH_REQUIRED").action) >>
  ELSE <<>>

check_agent_requirement(self, analysis) ==
  LET suggested == analysis.suggested_agents
      NotActive(a) == a \notin Range(self.context.active_agents)
      missing == SelectSeq(suggested, NotActive)
  IN IF missing # <<>> /\ analysis.complexity >= 2
     THEN << Violation("WARN", "AGENT_REQUIRED",
                       "Domain-specific agents not invoked",
                       missing, RULES("AGENT_REQUIRED").action) >>
     ELSE <<>>

required_hooks == <<"laziness-check", "honesty-check">>

check_quality_gates(self) ==
  LET NotExecuted(h) == h \notin Range(self.context.hooks_executed)
      skipped == SelectSeq(required_hooks, NotExecuted)
  IN [i \in 1..Len(skipped) |->
        Violation("ERROR", "QUALITY_GATE_SKIP", "Quality gate did not execute",
                  <<skipped[i]>>, RULES("QUALITY_GATE_SKIP").action)]

-----------------------------------------------------------------------------
\* Events: the dict parsed from one log line.  A key the dict lacks is Absent
\* (Python values) or "absent" (names); isdict is FALSE for JSON that is not
\* an object

Event(type) ==
  [action |-> "absent", type |-> type, isdict |-> TRUE, content |-> Absent,
   timestamp |-> Absent, agent |-> "absent", hook |-> "absent",
   status |-> "absent", tool |-> "absent"]

NotADict == [Event("absent") EXCEPT !.isdict = FALSE]

\* dict.get(key, default) for a Python value and for a name
get(value, default) == IF value.t = "absent" THEN default ELSE value
get_name(value, default) == IF value = "absent" THEN default ELSE value

\* the analysis slot when analyze_prompt was not called or did not return
NoAnalysis ==
  [domains |-> <<>>, complexity |-> 0, signals |-> <<>>,
   requires_orchestrator |-> FALSE, suggested_agents |-> <<>>]

\* a variant that is a plain list
deque_append_bug(history, v) == Append(history, v)

\* deque(maxlen=HISTORY_MAXLEN).append: at capacity the oldest entry is dropped
deque_append(history, v) ==
  IF Len(history) >= HISTORY_MAXLEN
  THEN Append(Tail(history), v)
  ELSE Append(history, v)

\* a variant that drops every occurrence
list_remove_bug(s, x) == SelectSeq(s, LAMBDA y : y # x)

\* list.remove(x): drops the first occurrence
RECURSIVE list_remove(_, _)
list_remove(s, x) ==
  IF Len(s) = 0 THEN s
  ELSE IF Head(s) = x THEN Tail(s)
  ELSE <<Head(s)>> \o list_remove(Tail(s), x)

\* lines 324-327: store the violations, in order
RECURSIVE store_violations(_, _)
store_violations(self, violations) ==
  IF Len(violations) = 0 THEN self
  ELSE store_violations(
         [context |-> [self.context EXCEPT !.violations = Append(@, Head(violations))],
          violation_history |-> deque_append(self.violation_history, Head(violations))],
         Tail(violations))

Returned(self, violations, analysis) ==
  [violations |-> violations, self |-> store_violations(self, violations),
   analysis |-> analysis, raised |-> FALSE]

\* an exception leaves process_event: the state is as the statements before
\* the raise left it and nothing is returned
Raised(self) ==
  [violations |-> <<>>, self |-> self, analysis |-> NoAnalysis, raised |-> TRUE]

\* a variant in which a prompt also starts the history afresh
prompt_checks_bug(self, analysis) ==
  LET s1 == [self EXCEPT !.context.complexity_score = analysis.complexity,
                         !.violation_history = <<>>]
  IN Returned(s1, check_orchestration_requirement(s1, analysis), analysis)

\* lines 268-273: the score is kept and the orchestration requirement checked
prompt_checks(self, analysis) ==
  LET s1 == [self EXCEPT !.context.complexity_score = analysis.complexity]
  IN Returned(s1, check_orchestration_requirement(s1, analysis), analysis)

\* a variant in which the end of the turn forgets the hooks that ran
response_checks_bug(self, analysis) ==
  Returned([self EXCEPT !.context.hooks_executed = <<>>],
           check_agent_requirement(self, analysis) \o check_quality_gates(self),
           analysis)

\* lines 316-322: the agent check, then the quality gates
response_checks(self, analysis) ==
  Returned(self, check_agent_requirement(self, analysis) \o check_quality_gates(self),
           analysis)

\* ProtocolEnforcer.process_event
Enforcer_process_event(self, event) ==
  IF ~event.isdict THEN Raised(self)   \* event.get: AttributeError
  ELSE IF event.type = "prompt" THEN
    LET c0 == [ExecutionContext EXCEPT
                 !.prompt = get(event.content, PyStr(<<>>)),
                 !.prompt_time = get(event.timestamp, PyNone)]
        s0 == [self EXCEPT !.context = c0]
    IN IF c0.prompt.t # "str" THEN Raised(s0)   \* prompt.lower(): AttributeError
       ELSE prompt_checks(s0, analyze_prompt(s0, c0.prompt.v))
  ELSE IF event.type = "orchestrator" THEN
    IF event.action = "start"
    THEN Returned([self EXCEPT !.context.orchestrator_active = TRUE], <<>>, NoAnalysis)
    ELSE IF event.action = "complete"
    THEN Returned([self EXCEPT !.context.orchestrator_active = FALSE], <<>>, NoAnalysis)
    ELSE Returned(self, <<>>, NoAnalysis)
  ELSE IF event.type = "agent" THEN
    LET agent == get_name(event.agent, "None") IN
    IF event.action \in {"invoke", "start"}
    THEN Returned([self EXCEPT !.context.active_agents = Append(@, agent)],
                  <<>>, NoAnalysis)
    ELSE IF event.action \in {"complete", "done"}
    THEN Returned([self EXCEPT !.context.active_agents = list_remove(@, agent)],
                  <<>>, NoAnalysis)
    ELSE Returned(self, <<>>, NoAnalysis)
  ELSE IF event.type = "subagent" THEN
    Returned([self EXCEPT !.context.subagents_spawned =
                             Append(@, get_name(event.agent, "unknown"))],
             <<>>, NoAnalysis)
  ELSE IF event.type = "hook" THEN
    LET hook == get_name(event.hook, "None")
        s0 == [self EXCEPT !.context.hooks_executed = Append(@, hook)]
    IN IF event.status = "BLOCKED"
       THEN Returned(s0, << Violation("WARN", "HOOK_BLOCKED", "Hook blocked execution",
                                      <<hook>>, "LOG") >>, NoAnalysis)
       ELSE Returned(s0, <<>>, NoAnalysis)
  ELSE IF event.type = "tool" THEN
    Returned([self EXCEPT !.context.tools_used =
                             Append(@, get_name(event.tool, "unknown"))],
             <<>>, NoAnalysis)
  ELSE IF event.type = "response" THEN
    IF self.context.complexity_score >= COMPLEXITY_THRESHOLD
    THEN LET held == self.context.prompt
             \* self.context.prompt or ''
             p == IF held.t = "None" \/ (held.t = "str" /\ Len(held.v) = 0)
                  THEN PyStr(<<>>) ELSE held
         IN IF p.t # "str" THEN Raised(self)
            ELSE response_checks(self, analyze_prompt(self, p.v))
    ELSE Returned(self, <<>>, NoAnalysis)
  ELSE Returned(self, <<>>, NoAnalysis)

-----------------------------------------------------------------------------
\* MonitorAgent.process_event, lines 482-490: the action and message of the
\* result.  The message is the prefix, the rule (STOP only) and the message
\* of the one violation it is formatted from.

NoMessage ==
  [rule |-> "None", message |-> [text |-> "None", args |-> <<>>], prefix |-> "None"]

\* a variant in which the first STOP or ASK violation decides
RECURSIVE determine_action_bug(_, _)
determine_action_bug(violations, result) ==
  IF Len(violations) = 0 THEN result
  ELSE LET v == Head(violations) IN
    IF v.action_taken = "STOP"
    THEN [action |-> "STOP",
          message |-> [rule |-> v.rule, message |-> v.message,
                       prefix |-> "[MONITOR] STOPPING"]]
    ELSE IF v.action_taken = "ASK"
    THEN [action |-> "ASK",
          message |-> [rule |-> "None", message |-> v.message,
                       prefix |-> "[MONITOR] CLARIFICATION NEEDED"]]
    ELSE determine_action_bug(Tail(violations), result)

RECURSIVE determine_action(_, _)
determine_action(violations, result) ==
  IF Len(violations) = 0 THEN result
  ELSE LET v == Head(violations) IN
    IF v.action_taken = "STOP"
    THEN [action |-> "STOP",
          message |-> [rule |-> v.rule, message |-> v.message,
                       prefix |-> "[MONITOR] STOPPING"]]          \* break
    ELSE IF v.action_taken = "ASK" /\ result.action # "STOP"
    THEN determine_action(Tail(violations),
           [action |-> "ASK",
            message |-> [rule |-> "None", message |-> v.message,
                         prefix |-> "[MONITOR] CLARIFICATION NEEDED"]])
    ELSE determine_action(Tail(violations), result)

\* MonitorAgent.process_event: the enforcement checks, then the action.  The
\* anomaly detector and the enforcement/anomaly log files take no part in the
\* action and are left out.
\* r is what self.enforcer.process_event(event) returned or raised
monitor_result(r) ==
  LET result == determine_action(r.violations, [action |-> "None", message |-> NoMessage])
  IN [violations |-> r.violations, self |-> r.self,
      action |-> IF r.raised THEN "None" ELSE result.action,
      message |-> IF r.raised THEN NoMessage ELSE result.message,
      analysis |-> r.analysis, raised |-> r.raised]

Monitor_process_event(self, event) == monitor_result(Enforcer_process_event(self, event))

-----------------------------------------------------------------------------
\* hook_status_emitter.py.  An entry is the sequence of its (key, value)
\* pairs; net is what the delivery attempt meets: "ok", "refused" (monitor
\* unreachable) or "timeout".

PyDict(keys) == [t |-> "dict", v |-> keys]
PyList(items) == [t |-> "list", v |-> items]
\* an instance json.dumps cannot serialise
PyObject == [t |-> "object", v |-> <<>>]

\* bool(value)
Truthy(value) ==
  CASE value.t = "None" -> FALSE
    [] value.t = "int" -> value.v # <<"0">>
    [] value.t = "object" -> TRUE
    [] OTHER -> Len(value.v) > 0

\* json.dumps(value) returns
Serialisable(value) == value.t \in {"None", "str", "int", "dict", "list"}

\* value[:n] returns (str, list); None and int are not subscriptable
Sliceable(value) == value.t \in {"str", "list"}

Slice(value, n) ==
  [value EXCEPT !.v = SubSeq(@, 1, IF Len(@) < n THEN Len(@) ELSE n)]

PROMPT_SNIPPET == 200

Pair(key, value) == <<key, value>>

Now == PyInt(<<"1">>)

NoEmit ==
  [fn |-> "None", outcome |-> "None", entry |-> <<>>, attempts |-> 0,
   delivered |-> FALSE]

\* the try block shared by the four functions: json.dumps, Request, urlopen
\* with a 0.5 s timeout; `except: pass` swallows whatever is raised
try_post(fn, entry, net) ==
  IF \E i \in 1..Len(entry) : ~Serialisable(entry[i][2])
  THEN [fn |-> fn, outcome |-> "returned", entry |-> entry, attempts |-> 0,
        delivered |-> FALSE]
  ELSE [fn |-> fn, outcome |-> "returned", entry |-> entry, attempts |-> 1,
        delivered |-> (net = "ok")]

\* an exception raised before the try block reaches the calling hook
emit_raised(fn) ==
  [fn |-> fn, outcome |-> "raised", entry |-> <<>>, attempts |-> 0,
   delivered |-> FALSE]

emit_hook_status(hook_name, status, message, event, duration_ms, details, net) ==
  LET e0 == << Pair("type", PyStr(<<"h", "o", "o", "k">>)), Pair("hook", hook_name),
               Pair("status", status), Pair("message", message),
               Pair("event", event), Pair("timestamp", Now) >>
      e1 == IF duration_ms.t # "None" THEN Append(e0, Pair("duration", duration_ms))
            ELSE e0
      e2 == IF Truthy(details) THEN Append(e1, Pair("details", details)) ELSE e1
  IN try_post("emit_hook_status", e2, net)

emit_agent_status(agent_name, action, mode, status, details, net) ==
  LET e0 == << Pair("type", PyStr(<<"a", "g", "e", "n", "t">>)),
               Pair("agent", agent_name), Pair("action", action),
               Pair("mode", mode), Pair("timestamp", Now) >>
      e1 == IF Truthy(status) THEN Append(e0, Pair("status", status)) ELSE e0
      e2 == IF Truthy(details) THEN Append(e1, Pair("details", details)) ELSE e1
  IN try_post("emit_agent_status", e2, net)

emit_intent(prompt, route, confidence, agents, reasoning, net) ==
  IF ~Sliceable(prompt) THEN emit_raised("emit_intent")   \* prompt[:200]: TypeError
  ELSE try_post("emit_intent",
         << Pair("type", PyStr(<<"i", "n", "t", "e", "n", "t">>)),
            Pair("prompt", Slice(prompt, PROMPT_SNIPPET)), Pair("route", route),
            Pair("confidence", confidence),
            Pair("suggested_agents", IF Truthy(agents) THEN agents ELSE PyList(<<>>)),
            Pair("reasoning", reasoning), Pair("timestamp", Now) >>,
         net)

emit_error(source, message, stack, net) ==
  LET e0 == << Pair("type", PyStr(<<"e", "r", "r", "o", "r">>)),
               Pair("source", source), Pair("message", message),
               Pair("timestamp", Now) >>
      e1 == IF Truthy(stack) THEN Append(e0, Pair("stack", stack)) ELSE e0
  IN try_post("emit_error", e1, net)

-----------------------------------------------------------------------------
\* LogManager, and the log file watch_logs reads.  A line of the file is its
\* payload (blank, text that is no JSON, or the JSON of a value), the number
\* the history gives it (0 for the monitor's own signals) and its size: a line
\* is short (1) or as large as MAX_LOG_SIZE.  Positions in a file are sums of
\* line sizes.

MAX_LOG_SIZE == 10 * 1024 * 1024

Blank == [k |-> "blank", value |-> Event("absent")]
Garbage == [k |-> "garbage", value |-> Event("absent")]
\* json.dumps(value) + newline
Json(value) == [k |-> "json", value |-> value]

Line(id, payload, huge) == [id |-> id, payload |-> payload, huge |-> huge]

line_size(line) == IF line.huge THEN MAX_LOG_SIZE ELSE 1

RECURSIVE st_size(_)
st_size(lines) ==
  IF lines = <<>> THEN 0 ELSE line_size(Head(lines)) + st_size(Tail(lines))

\* the position of the first byte of line k
line_start(lines, k) == st_size(SubSeq(lines, 1, k - 1))

\* next(f) with the file position at pos < st_size(lines): the line that
\* starts there, or the rest of the line pos is inside of, which is no JSON
readline(lines, pos) ==
  LET k == CHOOSE j \in 1..Len(lines) :
             line_start(lines, j) <= pos /\ pos < line_start(lines, j + 1)
  IN [line |-> IF pos = line_start(lines, k) THEN lines[k]
               ELSE Line(lines[k].id, Garbage, FALSE),
      whole |-> pos = line_start(lines, k),
      tell |-> line_start(lines, k + 1)]

NoLog == [lines |-> <<>>, exists |-> FALSE]

\* LogManager.write_log(MONITOR_LOG, entry), _rotate included: a file larger
\* than MAX_LOG_SIZE is renamed to the archive and the entry starts a new one
write_log(f, entry) ==
  LET rotate == f.exists /\ st_size(f.lines) > MAX_LOG_SIZE
  IN [lines |-> Append(IF rotate THEN <<>> ELSE f.lines, Line(0, Json(entry), FALSE)),
      exists |-> TRUE, rotated |-> rotate]

\* the entry of _emit_stop_signal ("STOP") and _emit_clarification ("ASK")
Signal(action) ==
  [Event("monitor_signal") EXCEPT !.action = action, !.timestamp = Now]

-----------------------------------------------------------------------------
\* Inputs

MaxEvents == 4   \* events given to process_event in one run
MaxWords == 3    \* words of a prompt given to a stand-alone analyze_prompt

\* the words prompts are made of: two collaboration phrases, multi-step words
\* ("and then" also holds "then"), a scope word in upper case and one inside
\* a longer word, one word per domain, and a neutral word
Vocabulary ==
  << <<"h", "e", "l", "p", " ", "m", "e">>,
     <<"C", "a", "n", " ", "w", "e">>,
     <<"f", "i", "r", "s", "t">>,
     <<"a", "n", "d", " ", "t", "h", "e", "n">>,
     <<"A", "L", "L">>,
     <<"o", "v", "e", "r", "a", "l", "l">>,
     <<"a", "u", "t", "h">>,
     <<"r", "e", "f", "a", "c", "t", "o", "r">>,
     <<"t", "e", "s", "t">>,
     <<"f", "a", "s", "t">>,
     <<"f", "i", "x">> >>

RECURSIVE join_words(_)
join_words(ws) ==
  IF Len(ws) = 0 THEN <<>>
  ELSE IF Len(ws) = 1 THEN Vocabulary[ws[1]]
  ELSE Vocabulary[ws[1]] \o <<" ">> \o join_words(Tail(ws))

\* every text of at most MaxWords words of the vocabulary
Prompts ==
  UNION {{join_words(ws) : ws \in [1..n -> 1..Len(Vocabulary)]} : n \in 0..MaxWords}

\* the prompts of the events: "fix", "help me fix", "test ALL",
\* "refactor ALL test"
EventTexts ==
  {join_words(<<11>>), join_words(<<1, 11>>), join_words(<<9, 5>>),
   join_words(<<8, 5, 9>>)}

\* the content of a prompt event: a text, or JSON null
EventPrompts == {PyStr(t) : t \in EventTexts} \cup {PyNone}

EventTime == PyInt(<<"1">>)
AgentNames == {"tester", "architect"}
AgentActions == {"invoke", "complete"}
HookNames == {"laziness-check", "honesty-check"}
HookStatuses == {"OK", "BLOCKED"}

-----------------------------------------------------------------------------
\* Specification Spec: a MonitorAgent is given events one at a time

NoCall ==
  [violations |-> <<>>, action |-> "None", message |-> NoMessage,
   analysis |-> NoAnalysis, raised |-> FALSE, event |-> Event("absent"),
   called |-> FALSE]

\* History of the run, kept beside the program's state to state properties
\* against: the number of events processed, whether an orchestrator 'start'
\* was processed with no later 'complete', and the agents invoked or started
\* and the hooks reported since the last prompt event
NothingSeen == [nevents |-> 0, orch_open |-> FALSE, invoked |-> {}, hooks |-> {}]

Record(s, event) ==
  LET t == IF event.isdict THEN event.type ELSE "absent"
      s1 == [s EXCEPT !.nevents = @ + 1]
  IN CASE t = "prompt" -> [s1 EXCEPT !.invoked = {}, !.hooks = {}]
       [] t = "orchestrator" /\ event.action = "start" -> [s1 EXCEPT !.orch_open = TRUE]
       [] t = "orchestrator" /\ event.action = "complete" ->
            [s1 EXCEPT !.orch_open = FALSE]
       [] t = "agent" /\ event.action \in {"invoke", "start"} ->
            [s1 EXCEPT !.invoked = @ \cup {event.agent}]
       [] t = "hook" -> [s1 EXCEPT !.hooks = @ \cup {event.hook}]
       [] OTHER -> s1

\* the ProtocolEnforcer object of the current state
Enforcer == [context |-> context, violation_history |-> violation_history]

\* MonitorAgent.__init__: running and _last_position; no file is open
NewWatch ==
  [running |-> FALSE, _last_position |-> 0, pc |-> "init", detached |-> FALSE,
   old |-> <<>>, cursor |-> 0]

NothingWritten == [signals |-> 0, written |-> 0, passed |-> {}, rotations |-> 0]

WatchIdle ==
  /\ fs = NoLog
  /\ watch = NewWatch
  /\ wseen = NothingWritten

\* MonitorAgent.__init__
MonitorInit ==
  /\ context = NewEnforcer.context
  /\ violation_history = NewEnforcer.violation_history
  /\ turn_analysis = NoAnalysis
  /\ last = NoCall
  /\ seen = NothingSeen

Init ==
  /\ MonitorInit
  /\ analyze_in = PyNone
  /\ analyze_out = NoAnalysis
  /\ emit = NoEmit
  /\ WatchIdle

\* one call monitor.process_event(event)
Call(r, event) ==
  [violations |-> r.violations, action |-> r.action, message |-> r.message,
   analysis |-> r.analysis, raised |-> r.raised, event |-> event, called |-> TRUE]

\* the enforcer and the result after the call that gave r
Processed(r, event) ==
  /\ context' = r.self.context
  /\ violation_history' = r.self.violation_history
  /\ last' = Call(r, event)
  /\ turn_analysis' = IF event.isdict /\ event.type = "prompt"
                      THEN r.analysis ELSE turn_analysis

Process(event) ==
  /\ seen.nevents < MaxEvents
  /\ Processed(Monitor_process_event(Enforcer, event), event)
  /\ seen' = Record(seen, event)
  /\ UNCHANGED <<analyze_in, analyze_out, emit, fs, watch, wseen>>

PromptEvent ==
  \E c \in EventPrompts :
    Process([Event("prompt") EXCEPT !.content = c, !.timestamp = EventTime])

OrchestratorEvent ==
  \E a \in {"start", "complete"} : Process([Event("orchestrator") EXCEPT !.action = a])

AgentEvent ==
  \E n \in AgentNames, a \in AgentActions :
    Process([Event("agent") EXCEPT !.agent = n, !.action = a])

SubagentEvent == Process([Event("subagent") EXCEPT !.agent = "explorer"])

HookEvent ==
  \E h \in HookNames, st \in HookStatuses :
    Process([Event("hook") EXCEPT !.hook = h, !.status = st])

ToolEvent == Process([Event("tool") EXCEPT !.tool = "Bash"])

ResponseEvent == Process(Event("response"))

\* an event of a type process_event has no branch for
OtherEvent == Process(Event("monitor_signal"))

Next ==
  \/ PromptEvent
  \/ OrchestratorEvent
  \/ AgentEvent
  \/ SubagentEvent
  \/ HookEvent
  \/ ToolEvent
  \/ ResponseEvent
  \/ OtherEvent

Spec == Init /\ [][Next]_vars

-----------------------------------------------------------------------------
\* Specification AnalyzeSpec: analyze_prompt applied to each text of Prompts on
\* a new enforcer (main, --analyze)

AnalyzeInit ==
  /\ MonitorInit
  /\ analyze_in \in {PyStr(t) : t \in Prompts}
  /\ analyze_out = NoAnalysis
  /\ emit = NoEmit
  /\ WatchIdle

AnalyzePrompt ==
  /\ analyze_out = NoAnalysis
  /\ analyze_out' = analyze_prompt(Enforcer, analyze_in.v)
  /\ UNCHANGED <<context, violation_history, turn_analysis, last, seen, analyze_in, emit,
                 fs, watch, wseen>>

AnalyzeNext == AnalyzePrompt

AnalyzeSpec == AnalyzeInit /\ [][AnalyzeNext]_vars

-----------------------------------------------------------------------------
\* Properties of the result of MonitorAgent.process_event (Spec)

\* the last call returned a result
ReturnedCall == last.called /\ ~last.raised

Raises(action) ==
  \E i \in 1..Len(last.violations) : last.violations[i].action_taken = action

RaisesRule(rule) ==
  \E i \in 1..Len(last.violations) : last.violations[i].rule = rule

\* C1: the result action is STOP iff some violation of the event has action
\* STOP, ASK iff none has STOP and some has ASK, and None otherwise, in
\* whatever order the violations come
C1_ActionFollowsViolations ==
  ReturnedCall =>
    /\ (last.action = "STOP") <=> Raises("STOP")
    /\ (last.action = "ASK") <=> (~Raises("STOP") /\ Raises("ASK"))
    /\ (last.action = "None") <=> (~Raises("STOP") /\ ~Raises("ASK"))

\* an ASK violation came before a STOP violation and the result is STOP
C1_Witness ==
  /\ ReturnedCall
  /\ Len(last.violations) >= 2
  /\ last.violations[1].action_taken = "ASK"
  /\ last.violations[2].action_taken = "STOP"
  /\ last.action = "STOP"

\* C2: the blocking message names every blocking violation of the event
C2_MessageNamesEveryBlocker ==
  ReturnedCall =>
    \A i \in 1..Len(last.violations) :
      last.violations[i].action_taken = "STOP" =>
        /\ last.message.rule = last.violations[i].rule
        /\ last.message.message = last.violations[i].message

\* C3: when every agent suggested for the current prompt was invoked or
\* started since that prompt, the response event raises no AGENT_REQUIRED
C3_InvokedAgentsSatisfy ==
  ( /\ ReturnedCall
    /\ last.event.type = "response"
    /\ context.prompt.t = "str"
    /\ \A a \in Range(turn_analysis.suggested_agents) : a \in seen.invoked )
  => ~RaisesRule("AGENT_REQUIRED")

IsPrefix(s, t) == Len(s) <= Len(t) /\ SubSeq(t, 1, Len(s)) = s

\* C4: the record of invoked agents only grows at its end: every step keeps
\* the entries recorded so far, in their order
C4_InvokedAgentsAppendOnly ==
  [][IsPrefix(context.active_agents, context'.active_agents)]_vars

\* the QUALITY_GATE_SKIP violations (ERROR, STOP) of the last call that name hook
GateSkips(hook) ==
  {i \in 1..Len(last.violations) :
     /\ last.violations[i].rule = "QUALITY_GATE_SKIP"
     /\ last.violations[i].message.args = <<hook>>}

\* C5: at every response event of a turn, each required gate whose hook was
\* not reported since the prompt gets exactly one QUALITY_GATE_SKIP violation
\* (ERROR, STOP), and a gate whose hook was reported gets none
C5_EveryTurnChecksGates ==
  (ReturnedCall /\ last.event.type = "response" /\ context.prompt.t = "str") =>
    \A h \in Range(required_hooks) :
      IF h \in seen.hooks
      THEN GateSkips(h) = {}
      ELSE /\ Cardinality(GateSkips(h)) = 1
           /\ \A i \in GateSkips(h) :
                /\ last.violations[i].severity = "ERROR"
                /\ last.violations[i].action_taken = "STOP"

\* C6: a prompt that requires an orchestrator raises ORCH_REQUIRED iff no
\* orchestrator is active (started and not completed since)
C6_OrchRequiredIffNoneActive ==
  (ReturnedCall /\ last.event.type = "prompt" /\ last.analysis.requires_orchestrator) =>
    (RaisesRule("ORCH_REQUIRED") <=> ~seen.orch_open)

-----------------------------------------------------------------------------
\* Properties of analyze_prompt

BoolToInt(b) == IF b THEN 1 ELSE 0

Min(a, b) == IF a < b THEN a ELSE b

\* C9: the complexity is in 1..5 and is min(5, 1 + collaboration + multi-step
\* (0, 1, 2) + 2*scope + security + architecture + performance), testing adds
\* nothing; an orchestrator is required iff the complexity reaches 3 or a
\* collaboration phrase occurs
C9_ComplexityFormula ==
  analyze_out.complexity # 0 =>
    LET p == lower(analyze_in.v)
        collab == \E k \in 1..Len(COLLAB_PHRASES) : Contains(p, COLLAB_PHRASES[k])
        multi == Cardinality({k \in 1..Len(MULTI_STEP_WORDS) :
                                Contains(p, MULTI_STEP_WORDS[k])})
        sum == 1 + BoolToInt(collab) + Min(multi, 2)
                 + 2 * BoolToInt(re_search(SCOPE_WORDS, p))
                 + BoolToInt(re_search(SECURITY_WORDS, p))
                 + BoolToInt(re_search(ARCHITECTURE_WORDS, p))
                 + BoolToInt(re_search(PERFORMANCE_WORDS, p))
    IN /\ analyze_out.complexity \in 1..5
       /\ analyze_out.complexity = Min(5, sum)
       /\ analyze_out.requires_orchestrator <=> (analyze_out.complexity >= 3 \/ collab)

\* a prompt with a collaboration phrase, "and then" (two multi-step words) and
\* a testing word was analysed, and its complexity is 4
C9_Witness ==
  /\ analyze_out.complexity = 4
  /\ analyze_out.requires_orchestrator
  /\ "testing" \in Range(analyze_out.domains)
  /\ Cardinality({k \in 1..Len(MULTI_STEP_WORDS) :
                    Contains(lower(analyze_in.v), MULTI_STEP_WORDS[k])}) >= 2
  /\ \E k \in 1..Len(COLLAB_PHRASES) :
        Contains(lower(analyze_in.v), COLLAB_PHRASES[k])

\* the text the probe analysis is made on: "refactor ALL test"
ProbeText == join_words(<<8, 5, 9>>)

\* C10: the analysis of a text is the same on the enforcer in its current
\* state as on a new enforcer; the re-analysis at a response event equals the
\* analysis at the prompt event; complexity_score is the complexity of the
\* prompt held
C10_AnalysisStateIndependent ==
  /\ analyze_prompt(Enforcer, ProbeText) = analyze_prompt(NewEnforcer, ProbeText)
  /\ context.prompt.t = "str" =>
       /\ analyze_prompt(Enforcer, context.prompt.v) = turn_analysis
       /\ context.complexity_score = turn_analysis.complexity
  /\ (ReturnedCall /\ last.event.type = "response" /\ last.analysis.complexity # 0) =>
       last.analysis = turn_analysis

\* a response event re-analysed the prompt while an agent it suggests was active
C10_Witness ==
  /\ ReturnedCall
  /\ last.event.type = "response"
  /\ last.analysis.complexity # 0
  /\ \E a \in Range(last.analysis.suggested_agents) : a \in Range(context.active_agents)

-----------------------------------------------------------------------------
\* Specification EmitSpec: hooks call the emit_* functions with arguments of
\* every kind, and the delivery meets every outcome

Net == {"ok", "refused", "timeout"}

SomeText == PyStr(<<"o", "k">>)
Texts == {SomeText, PyStr(<<>>)}
\* details: absent, empty, a dict json.dumps takes, an object it refuses
Details == {PyNone, PyDict(<<>>), PyDict(<<"files">>), PyObject}
Durations == {PyNone, PyInt(<<"0">>), PyInt(<<"5">>)}
\* the prompt of emit_intent: a text, missing, a number
IntentPrompts == {SomeText, PyNone, PyInt(<<"7">>)}
AgentLists == {PyNone, PyList(<<"tester">>)}

EmitInit ==
  /\ MonitorInit
  /\ analyze_in = PyNone
  /\ analyze_out = NoAnalysis
  /\ emit = NoEmit
  /\ WatchIdle

Unemitted == <<context, violation_history, turn_analysis, last, seen, analyze_in,
               analyze_out, fs, watch, wseen>>

EmitHookStatus ==
  \E status \in Texts, message \in Texts \cup {PyObject}, duration_ms \in Durations,
     details \in Details, net \in Net :
    /\ emit' = emit_hook_status(SomeText, status, message, SomeText, duration_ms,
                                details, net)
    /\ UNCHANGED Unemitted

EmitAgentStatus ==
  \E action \in Texts, status \in Texts \cup {PyNone}, details \in Details,
     net \in Net :
    /\ emit' = emit_agent_status(SomeText, action, SomeText, status, details, net)
    /\ UNCHANGED Unemitted

EmitIntent ==
  \E prompt \in IntentPrompts, route \in Texts, agents \in AgentLists, net \in Net :
    /\ emit' = emit_intent(prompt, route, PyInt(<<"9">>), agents, SomeText, net)
    /\ UNCHANGED Unemitted

EmitError ==
  \E message \in Texts \cup {PyObject}, stack \in Texts \cup {PyNone}, net \in Net :
    /\ emit' = emit_error(SomeText, message, stack, net)
    /\ UNCHANGED Unemitted

EmitNext == EmitHookStatus \/ EmitAgentStatus \/ EmitIntent \/ EmitError

EmitSpec == EmitInit /\ [][EmitNext]_vars

\* C7: every emit_* call returns to the calling hook, whatever the arguments
\* and the outcome of the delivery
C7_EmitAlwaysReturns == emit.outcome # "raised"

-----------------------------------------------------------------------------
\* Specification WatchSpec: watch_logs polls the log while other processes
\* append lines to it

MaxLines == 3
MaxSignals == 2

LogEvents ==
  { [Event("prompt") EXCEPT !.content = PyStr(join_words(<<11>>)), !.timestamp = EventTime],
    [Event("prompt") EXCEPT !.content = PyStr(join_words(<<9, 5>>)),
                            !.timestamp = EventTime],
    [Event("prompt") EXCEPT !.content = PyNone, !.timestamp = EventTime],
    Event("response"),
    NotADict }

Payloads == {Blank, Garbage} \cup {Json(e) : e \in LogEvents}

WatchInit == Init

Unwatched == <<turn_analysis, seen, analyze_in, analyze_out, emit>>

\* another process appends a line to the log
ExternalAppend ==
  /\ wseen.written < MaxLines
  /\ \E payload \in Payloads, huge \in BOOLEAN :
       fs' = [lines |-> Append(fs.lines, Line(wseen.written + 1, payload, huge)),
              exists |-> TRUE]
  /\ wseen' = [wseen EXCEPT !.written = @ + 1]
  /\ UNCHANGED <<context, violation_history, last, watch>>
  /\ UNCHANGED Unwatched

\* watch_logs is called
WatchStart ==
  /\ watch.pc = "init"
  /\ watch' = [watch EXCEPT !.running = TRUE, !.pc = "poll"]
  /\ UNCHANGED <<context, violation_history, last, fs, wseen>>
  /\ UNCHANGED Unwatched

\* the head of the while loop: the file is opened and positioned at
\* _last_position, or is not there and the loop sleeps
WatchOpen ==
  /\ watch.running /\ watch.pc = "poll"
  /\ watch' = IF fs.exists
              THEN [watch EXCEPT !.pc = "read", !.detached = FALSE, !.old = <<>>,
                                 !.cursor = watch._last_position]
              ELSE watch
  /\ UNCHANGED <<context, violation_history, last, fs, wseen>>
  /\ UNCHANGED Unwatched

\* the lines of the file watch_logs has open: those at MONITOR_LOG, or those
\* of the archived file if the log was rotated since it was opened
OpenLines == IF watch.detached THEN watch.old ELSE fs.lines

\* what one iteration of `for line in f` leaves, rd being the line read and r
\* the outcome of process_event on it, and whether it wrote a signal
line_outcome(rd, r) ==
  LET call == Call(r, rd.line.payload.value)
      pass == [wseen EXCEPT !.passed = IF rd.whole THEN @ \cup {rd.line.id} ELSE @]
      w == write_log(fs, Signal(r.action))
  IN IF rd.line.payload.k # "json"
     THEN \* a blank line, or JSONDecodeError: pass
          [last |-> last, fs |-> fs, watch |-> [watch EXCEPT !.cursor = rd.tell],
           wseen |-> pass, self |-> Enforcer, signal |-> FALSE]
     ELSE IF r.raised
     THEN \* except Exception: the file is closed, sleep(1)
          [last |-> call, fs |-> fs, watch |-> [watch EXCEPT !.pc = "poll"],
           wseen |-> wseen, self |-> r.self, signal |-> FALSE]
     ELSE IF r.action \in {"STOP", "ASK"}
     THEN \* _emit_stop_signal, _emit_clarification
          [last |-> call,
           fs |-> [lines |-> w.lines, exists |-> w.exists],
           watch |-> [watch EXCEPT !.detached = @ \/ w.rotated,
                                   !.old = IF w.rotated /\ ~watch.detached
                                           THEN fs.lines ELSE @,
                                   !.cursor = rd.tell],
           wseen |-> [pass EXCEPT !.signals = @ + 1,
                                  !.rotations = IF w.rotated THEN 1 ELSE @],
           self |-> r.self, signal |-> TRUE]
     ELSE [last |-> call, fs |-> fs, watch |-> [watch EXCEPT !.cursor = rd.tell],
           wseen |-> pass, self |-> r.self, signal |-> FALSE]

read_and_process(rd) ==
  line_outcome(rd, Monitor_process_event(Enforcer, rd.line.payload.value))

\* one iteration of `for line in f` at the position of the open file
LineStep == read_and_process(readline(OpenLines, watch.cursor))

\* the bound on signals allows what the iteration writes
Allowed(o) == o.signal => wseen.signals < MaxSignals

\* WatchLine can be taken: a line is left to read in the open file
LineEnabled ==
  /\ watch.running /\ watch.pc = "read"
  /\ watch.cursor < st_size(OpenLines)
  /\ Allowed(LineStep)

Taken(o) ==
  /\ context' = o.self.context
  /\ violation_history' = o.self.violation_history
  /\ last' = o.last
  /\ fs' = o.fs
  /\ watch' = o.watch
  /\ wseen' = o.wseen

WatchLine ==
  /\ LineEnabled
  /\ Taken(LineStep)
  /\ UNCHANGED Unwatched

\* the end of the file: _last_position = f.tell(), the file is closed, sleep(0.1)
WatchEOF ==
  /\ watch.running /\ watch.pc = "read"
  /\ watch.cursor >= st_size(OpenLines)
  /\ watch' = [watch EXCEPT !._last_position = watch.cursor, !.pc = "poll"]
  /\ UNCHANGED <<context, violation_history, last, fs, wseen>>
  /\ UNCHANGED Unwatched

\* KeyboardInterrupt
Interrupt ==
  /\ watch.running
  /\ watch' = [watch EXCEPT !.running = FALSE, !.pc = "stopped"]
  /\ UNCHANGED <<context, violation_history, last, fs, wseen>>
  /\ UNCHANGED Unwatched

WatchNext ==
  ExternalAppend \/ WatchStart \/ WatchOpen \/ WatchLine \/ WatchEOF \/ Interrupt

\* the thread that runs watch_logs is scheduled: each step of its loop that stays
\* possible is taken.  For WatchLine weak fairness is written out with
\* LineEnabled, the condition under which the step can be taken (every
\* WatchLine step changes watch).
WatchFair ==
  /\ WF_vars(WatchStart)
  /\ WF_vars(WatchOpen)
  /\ WF_vars(WatchEOF)
  /\ ([]<>~LineEnabled \/ []<><<WatchLine>>_vars)

WatchSpec == WatchInit /\ [][WatchNext]_vars /\ WatchFair

\* C8: every line written to the log is eventually passed by watch_logs
\* (processed or skipped), unless the monitor is interrupted or the log is
\* rotated: no line stops the watch from reaching the lines after it
C8_EveryLineEventuallyPassed ==
  \A i \in 1..MaxLines :
    (wseen.written >= i) ~>
      \/ i \in wseen.passed
      \/ watch.pc = "stopped"
      \/ wseen.rotations > 0
      \/ wseen.signals = MaxSignals

\* the WatchLine steps that go on to the next line: the line they read
PassesLine == watch.pc = "read" /\ watch'.pc = "read" /\ watch'.cursor # watch.cursor

\* the lines of other processes that watch_logs has passed
PassedEntries == wseen.passed \ {0}

\* at the head of the loop no line of another process lies before
\* _last_position in the log without having been passed
NoLineBehind ==
  (watch.pc = "poll" /\ fs.exists) =>
    \A k \in 1..Len(fs.lines) :
      (fs.lines[k].id > 0 /\ line_start(fs.lines, k + 1) <= watch._last_position) =>
        fs.lines[k].id \in wseen.passed

\* C11: every entry written to the log by another process is processed
\* exactly once and in file order: an iteration of the loop reads a whole line,
\* the lines passed before it are exactly the lines written before it, and no
\* line is left behind the position the next pass starts from
C11_ExactlyOnceInOrder ==
  /\ [][PassesLine =>
          LET rd == readline(OpenLines, watch.cursor)
          IN rd.line.id > 0 =>
               (rd.whole /\ PassedEntries = 1..(rd.line.id - 1))]_vars
  /\ []NoLineBehind

-----------------------------------------------------------------------------
\* Frame properties of ProtocolEnforcer.process_event, under Spec

\* the step processes an event of the given type
Processes(type) ==
  /\ seen'.nevents # seen.nevents
  /\ last'.event.isdict
  /\ last'.event.type = type

\* the last n elements of s
KeepLast(s, n) == IF Len(s) <= n THEN s ELSE SubSeq(s, Len(s) - n + 1, Len(s))

\* C12: a response event changes nothing of the context but violations, to
\* which it appends the violations it raises, as it does to violation_history
C12_ResponseOnlyAppendsViolations ==
  [][Processes("response") =>
       /\ context' = [context EXCEPT !.violations = @ \o last'.violations]
       /\ violation_history' =
            KeepLast(violation_history \o last'.violations, HISTORY_MAXLEN)]_vars

\* a response event raised violations in a turn in which a hook and an agent
\* were recorded
C12_Witness ==
  /\ ReturnedCall
  /\ last.event.type = "response"
  /\ Len(last.violations) > 0
  /\ context.hooks_executed # <<>>
  /\ context.active_agents # <<>>

-----------------------------------------------------------------------------
\* HistorySpec: the monitor after a long run.  The behaviours begin after
\* EarlierTurns - 1 or EarlierTurns turns, each the prompt "refactor ALL test"
\* answered with no orchestrator, agent or hook, so that violation_history is
\* at or near its capacity.

EarlierTurns == 250

EarlierPrompt ==
  [Event("prompt") EXCEPT !.content = PyStr(join_words(<<8, 5, 9>>)),
                          !.timestamp = EventTime]

EarlierResponse == Event("response")

\* the enforcer after one such turn
after_turn(self) ==
  Enforcer_process_event(Enforcer_process_event(self, EarlierPrompt).self,
                         EarlierResponse).self

\* the enforcer after k such turns, k > 0.  Each turn resets the context
\* (line 263) and appends its violations to the deque (lines 324-327): the
\* context is that of one turn and the history holds the last HISTORY_MAXLEN
\* violations of k repetitions of one turn's violations.
after_turns(turn, k) ==
  LET n == Len(turn.violation_history)
      kept == IF k * n <= HISTORY_MAXLEN THEN k * n ELSE HISTORY_MAXLEN
  IN [context |-> turn.context,
      violation_history |->
        [i \in 1..kept |-> turn.violation_history[((k * n - kept + i - 1) % n) + 1]]]

HistoryState(self) ==
  /\ context = self.context
  /\ violation_history = self.violation_history

\* the last call of the earlier turns: its response event
EarlierCall ==
  Call(Monitor_process_event(Enforcer_process_event(NewEnforcer, EarlierPrompt).self,
                             EarlierResponse),
       EarlierResponse)

\* seen holds the two events of the last of the earlier turns
HistoryInit ==
  /\ \E k \in {EarlierTurns - 1, EarlierTurns} :
       HistoryState(after_turns(after_turn(NewEnforcer), k))
  /\ turn_analysis = analyze_prompt(NewEnforcer, EarlierPrompt.content.v)
  /\ last = EarlierCall
  /\ seen = Record(Record(NothingSeen, EarlierPrompt), EarlierResponse)
  /\ analyze_in = PyNone
  /\ analyze_out = NoAnalysis
  /\ emit = NoEmit
  /\ WatchIdle

HistorySpec == HistoryInit /\ [][Next]_vars

\* the context is that of a turn just begun
FreshTurn(c) ==
  /\ c.orchestrator_active = FALSE
  /\ c.active_agents = <<>>
  /\ c.hooks_executed = <<>>
  /\ c.tools_used = <<>>
  /\ c.subagents_spawned = <<>>

\* The unbounded reading of C13: after a prompt event the turn is fresh and
\* violation_history still begins with all it held
C13_PromptKeepsEveryViolation ==
  [][Processes("prompt") =>
       /\ FreshTurn(context')
       /\ IsPrefix(violation_history, violation_history')]_vars

\* C13: a prompt event starts a fresh turn: after it orchestrator_active is
\* false and active_agents, hooks_executed, tools_used and subagents_spawned
\* are empty; violation_history is not cleared: it keeps the violations of
\* earlier turns, all of them while the violation the prompt raises fits under
\* the capacity of 1000, and the most recent ones otherwise
C13_PromptStartsFreshTurn ==
  [][Processes("prompt") =>
       /\ FreshTurn(context')
       /\ IsPrefix(KeepLast(violation_history,
                            HISTORY_MAXLEN - Len(last'.violations)),
                   violation_history')
       /\ Len(violation_history') >= Len(violation_history)]_vars

\* a prompt that raised a violation was processed while an orchestrator was
\* open and the history was at capacity
C13_Witness ==
  /\ ReturnedCall
  /\ last.event.type = "prompt"
  /\ Len(last.violations) = 1
  /\ seen.orch_open
  /\ Len(violation_history) = HISTORY_MAXLEN

\* C14: violation_history never holds more than 1000 violations; every event
\* leaves in it the most recent (up to 1000) of the violations it held and
\* those the event raised, in the order raised; context.violations holds the
\* violations raised since and including the latest prompt event, so that its
\* most recent (up to 1000) violations are the end of violation_history
C14_HistoryIsMostRecent ==
  /\ [](Len(violation_history) <= HISTORY_MAXLEN)
  /\ [](LET recent == KeepLast(context.violations, HISTORY_MAXLEN)
            n == Len(violation_history)
        IN Len(recent) <= n /\ SubSeq(violation_history, n - Len(recent) + 1, n) = recent)
  /\ [][seen'.nevents # seen.nevents =>
          /\ violation_history' =
               KeepLast(violation_history \o last'.violations, HISTORY_MAXLEN)
          /\ context'.violations =
               IF Processes("prompt") THEN last'.violations
               ELSE context.violations \o last'.violations]_vars

\* a blocked hook added a fifth violation to the turn with the history at
\* capacity, so that the oldest violation was dropped
C14_Witness ==
  /\ ReturnedCall
  /\ last.event.type = "hook"
  /\ Len(context.violations) = 5
  /\ Len(violation_history) = HISTORY_MAXLEN
  /\ Head(violation_history).rule = "AGENT_REQUIRED"

-----------------------------------------------------------------------------
\* AgentSpec: the monitor fed prompt, agent and response events, the agent
\* events with each of the four actions the agent branch distinguishes

LifecycleActions == {"invoke", "start", "complete", "done"}

AgentLifecycleEvent ==
  \E n \in AgentNames, a \in LifecycleActions :
    Process([Event("agent") EXCEPT !.agent = n, !.action = a])

AgentNext ==
  \/ PromptEvent
  \/ AgentLifecycleEvent
  \/ ResponseEvent

AgentSpec == Init /\ [][AgentNext]_vars

\* the number of occurrences of x in s
Occurrences(s, x) == Cardinality({i \in 1..Len(s) : s[i] = x})

\* the occurrences of an agent after an event, given n before it: none after a
\* prompt, one more after its 'invoke' or 'start', one less after its
\* 'complete' or 'done' unless there was none, and n after any other event
OccurrencesAfter(e, a, n) ==
  CASE e.isdict /\ e.type = "prompt" -> 0
    [] e.isdict /\ e.type = "agent" /\ e.agent = a /\ e.action \in {"invoke", "start"} ->
         n + 1
    [] e.isdict /\ e.type = "agent" /\ e.agent = a /\ e.action \in {"complete", "done"} ->
         IF n > 0 THEN n - 1 ELSE 0
    [] OTHER -> n

\* C15: for every agent, the occurrences of its name in active_agents are its
\* 'invoke'/'start' events less its 'complete'/'done' events since the last
\* prompt, a completion of an agent that is not active being ignored: each
\* event changes the count by that rule, from none after a prompt, and
\* active_agents holds no other name
C15_ActiveAgentsCount ==
  /\ [][seen'.nevents # seen.nevents =>
          \A a \in AgentNames :
            Occurrences(context'.active_agents, a) =
              OccurrencesAfter(last'.event, a, Occurrences(context.active_agents, a))]_vars
  /\ [](\A i \in 1..Len(context.active_agents) : context.active_agents[i] \in AgentNames)

\* an agent started twice and completed once is still active
C15_Witness ==
  /\ ReturnedCall
  /\ last.event.type = "agent"
  /\ last.event.action \in {"complete", "done"}
  /\ last.event.agent = "tester"
  /\ seen.nevents = 3
  /\ Occurrences(context.active_agents, "tester") = 1

-----------------------------------------------------------------------------
\* Blocked hooks, under Spec

\* the last call processed a hook event with status BLOCKED
BlockedHook ==
  /\ ReturnedCall
  /\ last.event.isdict
  /\ last.event.type = "hook"
  /\ last.event.status = "BLOCKED"

\* C16: a hook event with status BLOCKED raises exactly one violation, with
\* rule HOOK_BLOCKED, severity WARN and action LOG; the result of processing
\* it is neither STOP nor ASK, the only results for which watch_logs emits a
\* monitor signal; the hook is the latest entry of hooks_executed.  Every
\* violation raised under another rule has the severity and the action of
\* that rule in RULES
C16_BlockedHookOnlyLogs ==
  /\ BlockedHook =>
       /\ Len(last.violations) = 1
       /\ last.violations[1].rule = "HOOK_BLOCKED"
       /\ last.violations[1].severity = "WARN"
       /\ last.violations[1].action_taken = "LOG"
       /\ last.action \notin {"STOP", "ASK"}
       /\ context.hooks_executed # <<>>
       /\ context.hooks_executed[Len(context.hooks_executed)] = last.event.hook
  /\ \A i \in 1..Len(violation_history) :
       LET v == violation_history[i]
       IN v.rule # "HOOK_BLOCKED" =>
            /\ v.severity = RULES(v.rule).severity
            /\ v.action_taken = RULES(v.rule).action

\* a blocked hook was processed in a turn in which a violation of another
\* rule had been raised
C16_Witness ==
  /\ BlockedHook
  /\ Len(context.violations) >= 2
  /\ context.violations[1].rule # "HOOK_BLOCKED"

====
